---- MODULE Spec2Model ----
(***************************************************************************)
(* Model of screwdriver-cd/executor-router (src/index.js, lines 1-183):    *)
(* the ExecutorRouter constructor, the executor rule chain (annotated >    *)
(* weighted > default), checkExclusions, getWeightedExecutor, getExecutor  *)
(* and the _start / _stop operations.                                      *)
(*                                                                         *)
(* Five state machines share the variables:                                *)
(*   - Spec: construction of a router followed by one start or stop call;  *)
(*   - PluginSpec: the same with entries that carry a pluginName and with  *)
(*     verify, neither of which src/index.js has;                          *)
(*   - SelectorSpec: getWeightedExecutor applied to a list of candidates;  *)
(*   - OptionsSpec: construction with an ecosystem and per-entry options;  *)
(*   - CallsSpec: construction followed by a series of start and stop      *)
(*     calls on the same router.                                           *)
(*                                                                         *)
(* JavaScript values are modelled as follows.                              *)
(*   - a string used as a name (executor name, annotation value, default   *)
(*     plugin) is a TLA+ string; the value undefined is UNDEFINED;         *)
(*   - a container string and an exclusion pattern are sequences of        *)
(*     one-character strings, so that matching is computed;                *)
(*   - a weightage is a record [type, half, chars]: undefined, a number    *)
(*     (counted in halves, so 1.5 is half = 3) or a string of characters;  *)
(*   - every number of getWeightedExecutor is kept in halves where the     *)
(*     code can hold a fraction (totalWeight) and in units where it holds  *)
(*     an integer (number, sum).                                           *)
(***************************************************************************)
EXTENDS Integers, Sequences, FiniteSets, TLC

VARIABLES
    config,     \* the argument of new ExecutorRouter(config)
    router,     \* the constructed object, or the error the constructor threw
    required,   \* the executor names handed to require(), in order
    call        \* the call made on the router: its input and what it did

vars == <<config, router, required, call>>

-----------------------------------------------------------------------------
(* Bounds of the model *)

\* longest executor list of a configuration
MaxExecutors == 2

-----------------------------------------------------------------------------
(* JavaScript values *)

UNDEFINED == "undefined"

\* `x` used as a condition: undefined and the empty string are falsy
Truthy(x) == x /= UNDEFINED /\ x /= ""

\* ---- characters, lower-casing (the 'i' flag of the RegExp) ----
LowerOf ==
    [c \in {"R", "H", "r", "h", "6", "7"} |->
        CASE c = "R" -> "r"
          [] c = "H" -> "h"
          [] OTHER   -> c]

ToLowerCase(s) == [i \in 1..Len(s) |-> LowerOf[s[i]]]

\* a container, as config.container: absent (undefined) or a string
NoContainer == [present |-> FALSE, chars |-> <<>>]
Str(cs) == [present |-> TRUE, chars |-> cs]

-----------------------------------------------------------------------------
(* Weightage values and their two conversions *)

WUndefined == [type |-> "undefined", half |-> 0, chars |-> <<>>]
WNumber(h) == [type |-> "number", half |-> h, chars |-> <<>>]
WString(cs) == [type |-> "string", half |-> 0, chars |-> cs]

NaN == [nan |-> TRUE, half |-> 0]
Num(h) == [nan |-> FALSE, half |-> h]

Digits == {"0", "1", "2", "3", "4", "5", "6", "7", "8", "9"}

DigitValue(c) ==
    CASE c = "0" -> 0 [] c = "1" -> 1 [] c = "2" -> 2 [] c = "3" -> 3
      [] c = "4" -> 4 [] c = "5" -> 5 [] c = "6" -> 6 [] c = "7" -> 7
      [] c = "8" -> 8 [] c = "9" -> 9

\* length of the longest prefix of s made of decimal digits
RECURSIVE LeadingDigits(_)
LeadingDigits(s) ==
    IF s = <<>> \/ Head(s) \notin Digits THEN 0
    ELSE 1 + LeadingDigits(Tail(s))

\* value of a sequence of decimal digits
RECURSIVE DecimalValue(_)
DecimalValue(ds) ==
    IF ds = <<>> THEN 0
    ELSE 10 * DecimalValue(SubSeq(ds, 1, Len(ds) - 1)) + DigitValue(ds[Len(ds)])

\* truncation of h halves toward zero, in units
TruncHalf(h) == IF h >= 0 THEN h \div 2 ELSE -((-h) \div 2)

\* StringToNumber of a decimal literal: "", [-]digits, [-]digits.digits;
\* anything else is NaN.  The fraction digits modelled are "0" and "5".
StringToNumber(s) ==
    LET neg  == s /= <<>> /\ Head(s) = "-"
        body == IF neg THEN Tail(s) ELSE s
        n    == LeadingDigits(body)
        int  == DecimalValue(SubSeq(body, 1, n))
        rest == SubSeq(body, n + 1, Len(body))
        frac == IF rest = <<>> THEN <<>> ELSE Tail(rest)
        sign == IF neg THEN -1 ELSE 1
    IN  IF s = <<>> THEN Num(0)
        ELSE IF rest = <<>> /\ n > 0 THEN Num(sign * 2 * int)
        ELSE IF rest /= <<>> /\ Head(rest) = "." /\ n + Len(frac) > 0
                /\ \A i \in 1..Len(frac) : frac[i] \in {"0", "5"}
                /\ Len(frac) <= 1
             THEN Num(sign * (2 * int + (IF frac = <<"5">> THEN 1 ELSE 0)))
        ELSE NaN

\* the unary plus of `+curr.weightage`
ToNumber(w) ==
    CASE w.type = "undefined" -> NaN
      [] w.type = "number"    -> Num(w.half)
      [] w.type = "string"    -> StringToNumber(w.chars)

\* parseInt(x, 10): x is converted to a string, then an optional sign and the
\* leading decimal digits are read; no digit gives NaN.  The result is in
\* halves like every other number here (always an even count).
ParseInt(w) ==
    CASE w.type = "undefined" -> NaN
      [] w.type = "number"    -> Num(2 * TruncHalf(w.half))
      [] w.type = "string"    ->
            LET s    == w.chars
                neg  == s /= <<>> /\ Head(s) = "-"
                body == IF neg THEN Tail(s) ELSE s
                n    == LeadingDigits(body)
                int  == DecimalValue(SubSeq(body, 1, n))
            IN  IF n = 0 THEN NaN
                ELSE Num((IF neg THEN -1 ELSE 1) * 2 * int)

\* `x || 0` for a number x: NaN and 0 give 0
OrZero(x) == IF x.nan THEN 0 ELSE x.half
-----------------------------------------------------------------------------
(* Configuration values *)

\* names an executor entry can carry, and those for which
\* require(`screwdriver-executor-${name}`) finds a module
ExecutorNames == {"k8s", "example", "DNE"}
InstalledModules == {"k8s", "example"}

\* properties every ExecutorRouter has besides the registered executors:
\* its own fields, its methods and those it inherits
RouterMembers ==
    {"_executors", "_executorRules", "constructor", "start", "stop",
     "getExecutor", "getWeightedExecutor", "checkExclusions",
     "parseAnnotations"}

NoExclusions == [present |-> FALSE, items |-> <<>>]
Exclusions(ps) == [present |-> TRUE, items |-> ps]

Weightages == {WUndefined, WNumber(0), WNumber(3), WString(<<"2">>)}

ExclusionLists ==
    {NoExclusions, Exclusions(<<>>), Exclusions(<< <<"h", "7">>, <<"R", "6">> >>)}

Containers ==
    {NoContainer, Str(<<>>), Str(<<"h", "r", "6">>), Str(<<"r", "7">>)}

ExecutorSpecs ==
    [name : ExecutorNames, weightage : Weightages, exclusions : ExclusionLists]

\* executor lists of 1..MaxExecutors entries with distinct names: the name is
\* the key under which the instance is stored on the router
RECURSIVE ExecutorLists(_)
ExecutorLists(n) ==
    IF n = 0 THEN {<<>>}
    ELSE LET shorter == ExecutorLists(n - 1)
         IN  shorter \cup
             {Append(l, e) : l \in {x \in shorter : Len(x) = n - 1},
                             e \in ExecutorSpecs}

DistinctNames(l) == \A i, j \in 1..Len(l) : i /= j => l[i].name /= l[j].name

\* config.executor: missing, an object that is no array, or an array
ExecutorFields ==
    {[kind |-> "undefined", list |-> <<>>], [kind |-> "object", list |-> <<>>]}
    \cup {[kind |-> "array", list |-> l] :
            l \in {x \in ExecutorLists(MaxExecutors) : DistinctNames(x)}}

DefaultPlugins == {UNDEFINED, "example", "DNE"}

\* `given` is FALSE for new ExecutorRouter() with no argument
Configs ==
    {[given |-> FALSE, executor |-> [kind |-> "undefined", list |-> <<>>],
      defaultPlugin |-> UNDEFINED]}
    \cup [given : {TRUE}, executor : ExecutorFields, defaultPlugin : DefaultPlugins]

\* annotations of a call: none, or one entry whose key is prefix + key
NoAnnotations == [present |-> FALSE, prefix |-> "", key |-> "", value |-> UNDEFINED]

AnnotationValues == ExecutorNames \cup {"constructor"}

Annotations ==
    {NoAnnotations}
    \cup [present : {TRUE}, prefix : {"beta.screwdriver.cd/"}, key : {"executor"},
          value : AnnotationValues]
    \cup {[present |-> TRUE, prefix |-> "", key |-> "executor", value |-> "k8s"],
          [present |-> TRUE, prefix |-> "screwdriver.cd/", key |-> "cpu",
           value |-> "example"]}

\* the fields of a call configuration the router does not read
BuildIds == {920}

CallConfigs == [annotations : Annotations, container : Containers, buildId : BuildIds]

\* what the promise of an executor operation does: it resolves with a result
\* or rejects with an error
NoResponse == [kind |-> "none", value |-> UNDEFINED]
Resolved(result) == [kind |-> "resolved", value |-> result]
Rejected(err) == [kind |-> "rejected", value |-> err]

Responses == {Resolved("exampleExecutorMockResult"), Rejected("triggeredError")}
-----------------------------------------------------------------------------
(* The rule chain and its helpers *)

\* Key in annotations object that maps to an executor NPM module
ANNOTATION_EXECUTOR_TYPE == "executor"

AnnotationPrefixes == {"beta.screwdriver.cd/", "screwdriver.cd/"}

\* parseAnnotations of the base class: the annotation prefix is stripped
\* from every key
ParseAnnotations(a) ==
    IF a.present /\ a.prefix \in AnnotationPrefixes
    THEN [a EXCEPT !.prefix = ""]
    ELSE a

\* annotations[key] of a parsed annotations object
AnnotationAt(a, key) ==
    IF a.present /\ a.prefix = "" /\ a.key = key THEN a.value ELSE UNDEFINED

\* variant of RegExpMatch: the 'i' flag is missing
RegExpMatchCaseSensitive(item, chars) ==
    \E i \in 0..(Len(chars) - Len(item)) :
        SubSeq(chars, i + 1, i + Len(item)) = item

\* container.match(new RegExp(item, 'gi')) for a pattern without
\* metacharacters: item occurs in container, letter case ignored
RegExpMatch(item, chars) ==
    \E i \in 0..(Len(chars) - Len(item)) :
        ToLowerCase(SubSeq(chars, i + 1, i + Len(item))) = ToLowerCase(item)

\* variant of CheckExclusionsThrows: an undefined container is read as ''
CheckExclusionsNeverThrows(executors, container) == FALSE

\* checkExclusions throws a TypeError when container.match is evaluated on
\* an undefined container: at the first executor with a non-empty exclusions
CheckExclusionsThrows(executors, container) ==
    /\ ~container.present
    /\ \E i \in 1..Len(executors) :
          executors[i].exclusions.present /\ executors[i].exclusions.items /= <<>>

CheckExclusions(executors, container) ==
    LET Allowed(executor) ==
            \/ ~executor.exclusions.present
            \/ ~\E k \in 1..Len(executor.exclusions.items) :
                   RegExpMatch(executor.exclusions.items[k], container.chars)
    IN  SelectSeq(executors, Allowed)

\* executors.reduce((prev, curr) => prev + (+curr.weightage || 0), 0), in halves
RECURSIVE TotalWeight(_)
TotalWeight(executors) ==
    IF executors = <<>> THEN 0
    ELSE TotalWeight(SubSeq(executors, 1, Len(executors) - 1))
         + OrZero(ToNumber(executors[Len(executors)].weightage))

\* variant of RandomNumbers: the draw is rounded to the nearest integer, so
\* that it can be totalWeight itself
RandomNumbersRounded(totalHalf) ==
    IF totalHalf >= 0 THEN 0..((totalHalf + 1) \div 2)
    ELSE (-(((-totalHalf) + 1) \div 2))..0

\* the values Math.floor(Math.random() * totalWeight) can take, Math.random()
\* being any number of [0, 1); totalHalf is totalWeight in halves
RandomNumbers(totalHalf) ==
    IF totalHalf >= 0 THEN 0..(((totalHalf + 1) \div 2) - 1)
    ELSE (-(((-totalHalf) + 1) \div 2))..0

\* the for loop of getWeightedExecutor from index i on; sumHalf is sum in halves
RECURSIVE WeightedWalk(_, _, _, _)
WeightedWalk(executors, i, sumHalf, number) ==
    IF i > Len(executors) THEN executors[1].name
    ELSE LET next == sumHalf + OrZero(ParseInt(executors[i].weightage))
         IN  IF 2 * number < next THEN executors[i].name
             ELSE WeightedWalk(executors, i + 1, next, number)

\* the for loop of getWeightedExecutor from index i on ends without a
\* return, so that the final return executors[0].name is what answers
RECURSIVE WalkFallsThrough(_, _, _, _)
WalkFallsThrough(executors, i, sumHalf, number) ==
    IF i > Len(executors) THEN TRUE
    ELSE LET next == sumHalf + OrZero(ParseInt(executors[i].weightage))
         IN  IF 2 * number < next THEN FALSE
             ELSE WalkFallsThrough(executors, i + 1, next, number)

GetWeightedExecutor(executors, number) ==
    IF TotalWeight(executors) = 0 THEN UNDEFINED
    ELSE WeightedWalk(executors, 1, 0, number)

\* this[name] on a constructed router
This(r, name) ==
    IF name \in DOMAIN r.instances THEN [kind |-> "instance", name |-> name]
    ELSE IF name \in RouterMembers THEN [kind |-> "member", name |-> name]
    ELSE [kind |-> "undefined", name |-> UNDEFINED]

\* the check of the default rule
DefaultCheck(defaultPlugin, executors) ==
    IF Truthy(defaultPlugin) THEN defaultPlugin
    ELSE IF executors /= <<>> THEN executors[1].name
    ELSE UNDEFINED

\* variant of ExecutorRules: there is no annotated rule
ExecutorRulesWithoutAnnotated == <<"weighted", "default">>

\* variant of ExecutorRules: the weighted rule is consulted first
ExecutorRulesWeightedFirst == <<"weighted", "annotated", "default">>

\* this._executorRules: order-> annotated > weighted > default
ExecutorRules == <<"annotated", "weighted", "default">>

\* variant of RuleCheck: the default rule takes its name from the candidates
\* the exclusion filter leaves
RuleCheckDefaultFiltered(rule, r, buildConfig, number) ==
    CASE rule = "annotated" ->
            [threw |-> FALSE,
             value |-> AnnotationAt(ParseAnnotations(buildConfig.annotations),
                                    ANNOTATION_EXECUTOR_TYPE)]
      [] rule = "weighted" ->
            IF CheckExclusionsThrows(r._executors, buildConfig.container)
            THEN [threw |-> TRUE, value |-> UNDEFINED]
            ELSE [threw |-> FALSE,
                  value |-> GetWeightedExecutor(
                                CheckExclusions(r._executors, buildConfig.container),
                                number)]
      [] rule = "default" ->
            IF CheckExclusionsThrows(r._executors, buildConfig.container)
            THEN [threw |-> TRUE, value |-> UNDEFINED]
            ELSE LET left == CheckExclusions(r._executors, buildConfig.container)
                 IN  [threw |-> FALSE,
                      value |-> IF \E i \in 1..Len(left) : left[i].name = r.defaultPlugin
                                THEN r.defaultPlugin
                                ELSE DefaultCheck(UNDEFINED, left)]

\* variant of RuleCheck: the annotated rule gives its name only when the
\* exclusion filter leaves the named candidate
RuleCheckAnnotatedFiltered(rule, r, buildConfig, number) ==
    CASE rule = "annotated" ->
            IF CheckExclusionsThrows(r._executors, buildConfig.container)
            THEN [threw |-> TRUE, value |-> UNDEFINED]
            ELSE LET left == CheckExclusions(r._executors, buildConfig.container)
                     name == AnnotationAt(ParseAnnotations(buildConfig.annotations),
                                          ANNOTATION_EXECUTOR_TYPE)
                 IN  [threw |-> FALSE,
                      value |-> IF /\ \E i \in 1..Len(r._executors) :
                                         r._executors[i].name = name
                                   /\ ~\E k \in 1..Len(left) : left[k].name = name
                                THEN UNDEFINED
                                ELSE name]
      [] rule = "weighted" ->
            IF CheckExclusionsThrows(r._executors, buildConfig.container)
            THEN [threw |-> TRUE, value |-> UNDEFINED]
            ELSE [threw |-> FALSE,
                  value |-> GetWeightedExecutor(
                                CheckExclusions(r._executors, buildConfig.container),
                                number)]
      [] rule = "default" ->
            [threw |-> FALSE, value |-> DefaultCheck(r.defaultPlugin, r._executors)]

\* rule.check(buildConfig): whether it throws and, if not, what it returns
RuleCheck(rule, r, buildConfig, number) ==
    CASE rule = "annotated" ->
            [threw |-> FALSE,
             value |-> AnnotationAt(ParseAnnotations(buildConfig.annotations),
                                    ANNOTATION_EXECUTOR_TYPE)]
      [] rule = "weighted" ->
            IF CheckExclusionsThrows(r._executors, buildConfig.container)
            THEN [threw |-> TRUE, value |-> UNDEFINED]
            ELSE [threw |-> FALSE,
                  value |-> GetWeightedExecutor(
                                CheckExclusions(r._executors, buildConfig.container),
                                number)]
      [] rule = "default" ->
            [threw |-> FALSE, value |-> DefaultCheck(r.defaultPlugin, r._executors)]

\* variant of EvaluateFrom: no try / catch around rule.check, so a rule that
\* throws ends getExecutor without an executor
RECURSIVE EvaluateFromNoCatch(_, _, _, _, _, _)
EvaluateFromNoCatch(i, executorName, failed, r, buildConfig, number) ==
    IF i > Len(ExecutorRules)
    THEN [executorName |-> executorName, rule |-> "none", failed |-> failed]
    ELSE LET rule == ExecutorRules[i]
             res  == RuleCheck(rule, r, buildConfig, number)
         IN  IF res.threw
             THEN [executorName |-> UNDEFINED, rule |-> "none",
                   failed |-> failed \cup {rule}]
             ELSE IF Truthy(res.value) /\ This(r, res.value).kind /= "undefined"
             THEN [executorName |-> res.value, rule |-> rule, failed |-> failed]
             ELSE EvaluateFromNoCatch(i + 1, res.value, failed, r, buildConfig, number)

\* variant of EvaluateFrom: the catch block leaves the loop, so the rules
\* after one that throws are not consulted
RECURSIVE EvaluateFromStopsAtFailure(_, _, _, _, _, _)
EvaluateFromStopsAtFailure(i, executorName, failed, r, buildConfig, number) ==
    IF i > Len(ExecutorRules)
    THEN [executorName |-> executorName, rule |-> "none", failed |-> failed]
    ELSE LET rule == ExecutorRules[i]
             res  == RuleCheck(rule, r, buildConfig, number)
         IN  IF res.threw
             THEN [executorName |-> executorName, rule |-> "none",
                   failed |-> failed \cup {rule}]
             ELSE IF Truthy(res.value) /\ This(r, res.value).kind /= "undefined"
             THEN [executorName |-> res.value, rule |-> rule, failed |-> failed]
             ELSE EvaluateFromStopsAtFailure(i + 1, res.value, failed, r,
                                             buildConfig, number)

\* the for loop of getExecutor from rule i on; a rule that throws leaves
\* executorName as it was
RECURSIVE EvaluateFrom(_, _, _, _, _, _)
EvaluateFrom(i, executorName, failed, r, buildConfig, number) ==
    IF i > Len(ExecutorRules)
    THEN [executorName |-> executorName, rule |-> "none", failed |-> failed]
    ELSE LET rule == ExecutorRules[i]
             res  == RuleCheck(rule, r, buildConfig, number)
         IN  IF res.threw
             THEN EvaluateFrom(i + 1, executorName, failed \cup {rule},
                               r, buildConfig, number)
             ELSE IF Truthy(res.value) /\ This(r, res.value).kind /= "undefined"
             THEN [executorName |-> res.value, rule |-> rule, failed |-> failed]
             ELSE EvaluateFrom(i + 1, res.value, failed, r, buildConfig, number)

\* getExecutor(config): the name the loop ends with, the rule that ended it,
\* the rules that threw, and the returned this[executorName]
GetExecutor(r, buildConfig, number) ==
    LET e == EvaluateFrom(1, UNDEFINED, {}, r, buildConfig, number)
    IN  [executorName |-> e.executorName, rule |-> e.rule, failed |-> e.failed,
         executor |-> This(r, e.executorName)]

-----------------------------------------------------------------------------
(* Construction *)

NoExecutorConfig == "No executor config passed in."
NoDefaultExecutor == "No default executor set."

NotConstructed ==
    [status |-> "new", error |-> "", _executors |-> <<>>,
     instances |-> <<>>, defaultPlugin |-> UNDEFINED]

Thrown(message) == [NotConstructed EXCEPT !.status = "threw", !.error = message]

\* constructor(config = {})
EffectiveConfig(c) ==
    IF c.given THEN c
    ELSE [given |-> TRUE, executor |-> [kind |-> "undefined", list |-> <<>>],
          defaultPlugin |-> UNDEFINED]

\* variant of ExecutorConfigMissing: the length is not looked at
ExecutorConfigMissingNoLength(executor) == executor.kind /= "array"

\* !executor || !Array.isArray(executor) || executor.length === 0
ExecutorConfigMissing(executor) ==
    executor.kind /= "array" \/ Len(executor.list) = 0

\* require(`screwdriver-executor-${name}`) succeeds
Resolves(name) == name \in InstalledModules

\* variant of RegisteredExecutors: the entry is pushed before require() is tried
RegisteredExecutorsAll(list) == list

\* this._executors after the forEach: the entries whose module resolves
RegisteredExecutors(list) ==
    LET Loaded(plugin) == Resolves(plugin.name)
    IN  SelectSeq(list, Loaded)

\* the instances stored by this[plugin.name] = new ExecutorPlugin(options)
Instances(list) ==
    [name \in {list[i].name : i \in {k \in 1..Len(list) : Resolves(list[k].name)}}
        |-> [module |-> name]]

\* the names require() is called with, in order
RequiredNames(list) == [i \in 1..Len(list) |-> list[i].name]

Constructor(c) ==
    LET cfg       == EffectiveConfig(c)
        executors == RegisteredExecutors(cfg.executor.list)
    IN  IF ExecutorConfigMissing(cfg.executor)
        THEN [router |-> Thrown(NoExecutorConfig), required |-> <<>>]
        ELSE IF ~Truthy(DefaultCheck(cfg.defaultPlugin, executors))
        THEN [router |-> Thrown(NoDefaultExecutor),
              required |-> RequiredNames(cfg.executor.list)]
        ELSE [router |-> [status |-> "constructed", error |-> "",
                          _executors |-> executors,
                          instances |-> Instances(cfg.executor.list),
                          defaultPlugin |-> cfg.defaultPlugin],
              required |-> RequiredNames(cfg.executor.list)]

-----------------------------------------------------------------------------
(* The operations *)

NoCall ==
    [op |-> "none",
     config |-> [annotations |-> NoAnnotations, container |-> NoContainer, buildId |-> 920],
     executorName |-> UNDEFINED, rule |-> "none", failed |-> {},
     target |-> "undefined", invoked |-> UNDEFINED, error |-> "",
     invocations |-> <<>>, response |-> NoResponse, returned |-> NoResponse,
     earlier |-> <<>>]

\* variant of Invoke: an operation that rejects is tried a second time
InvokeWithRetry(op, executor, buildConfig, response) ==
    LET one == [executor |-> executor.name, op |-> op, config |-> buildConfig]
    IN  IF executor.kind /= "instance"
        THEN [invocations |-> <<>>, response |-> Rejected("TypeError")]
        ELSE IF response.kind = "rejected"
        THEN [invocations |-> <<one, one>>, response |-> response]
        ELSE [invocations |-> <<one>>, response |-> response]

\* variant of Invoke: the executor is handed the configuration with its
\* annotations parsed
InvokeParsedConfig(op, executor, buildConfig, response) ==
    IF executor.kind = "instance"
    THEN [invocations |-> << [executor |-> executor.name, op |-> op,
                              config |-> [buildConfig EXCEPT !.annotations =
                                             ParseAnnotations(@)]] >>,
          response |-> response]
    ELSE [invocations |-> <<>>, response |-> Rejected("TypeError")]

\* executor[op](config) on what getExecutor returned: the operation of an
\* instance is invoked with config and its promise is `response`; anything
\* else has no such operation and the call throws a TypeError
Invoke(op, executor, buildConfig, response) ==
    IF executor.kind = "instance"
    THEN [invocations |-> << [executor |-> executor.name, op |-> op,
                              config |-> buildConfig] >>,
          response |-> response]
    ELSE [invocations |-> <<>>, response |-> Rejected("TypeError")]

\* executor = this.getExecutor(config); return executor[op](config)
Forward(op, r, buildConfig, number, response) ==
    LET e == GetExecutor(r, buildConfig, number)
        i == Invoke(op, e.executor, buildConfig, response)
    IN  [op |-> op, config |-> buildConfig,
         executorName |-> e.executorName, rule |-> e.rule, failed |-> e.failed,
         target |-> e.executor.kind,
         invoked |-> IF e.executor.kind = "instance" THEN e.executor.name ELSE UNDEFINED,
         error |-> IF e.executor.kind = "instance" THEN "" ELSE "TypeError",
         invocations |-> i.invocations,
         response |-> IF e.executor.kind = "instance" THEN response ELSE NoResponse,
         returned |-> i.response,
         earlier |-> <<>>]

\* variant of RouterAfterCall: checkExclusions filters this._executors in
\* place, so the candidates a call excludes are lost to the router
RouterAfterInPlaceFilter(r, made) ==
    IF CheckExclusionsThrows(r._executors, made.config.container)
       \/ made.rule = "annotated"
    THEN r
    ELSE [r EXCEPT !._executors = CheckExclusions(@, made.config.container)]

\* variant of RouterAfterCall: the router keeps the executor of the call as
\* its default
RouterAfterRemembering(r, made) ==
    IF made.invoked = UNDEFINED THEN r
    ELSE [r EXCEPT !.defaultPlugin = made.invoked]

\* the router after the call `made`: getExecutor, checkExclusions (filter
\* returns a new array), getWeightedExecutor, _start and _stop assign to no
\* field of the router
RouterAfterCall(r, made) == r

\* the promises the executor a call resolves to can answer with
ResponsesFor(r, buildConfig, number) ==
    IF GetExecutor(r, buildConfig, number).executor.kind = "instance"
    THEN Responses
    ELSE {NoResponse}

\* the numbers the weighted rule can draw for this call
NumbersFor(r, buildConfig) ==
    IF CheckExclusionsThrows(r._executors, buildConfig.container) THEN {0}
    ELSE LET t == TotalWeight(CheckExclusions(r._executors, buildConfig.container))
         IN  IF t = 0 THEN {0} ELSE RandomNumbers(t)

_start(r, buildConfig, number, response) ==
    Forward("start", r, buildConfig, number, response)

_stop(r, buildConfig, number, response) ==
    Forward("stop", r, buildConfig, number, response)

-----------------------------------------------------------------------------
(* The state machine *)

Init ==
    /\ config \in Configs
    /\ router = NotConstructed
    /\ required = <<>>
    /\ call = NoCall

Construct ==
    /\ router.status = "new"
    /\ router' = Constructor(config).router
    /\ required' = Constructor(config).required
    /\ UNCHANGED <<config, call>>

\* router.start(config) on a constructed router.  The router is followed up to
\* its first call: no operation changes the router, so every later call starts
\* from the same router as the first.
Start ==
    /\ router.status = "constructed"
    /\ call.op = "none"
    /\ \E buildConfig \in CallConfigs :
         \E number \in NumbersFor(router, buildConfig) :
            \E response \in ResponsesFor(router, buildConfig, number) :
                call' = _start(router, buildConfig, number, response)
    /\ router' = RouterAfterCall(router, call')
    /\ UNCHANGED <<config, required>>

\* router.stop(config) on a constructed router
Stop ==
    /\ router.status = "constructed"
    /\ call.op = "none"
    /\ \E buildConfig \in CallConfigs :
         \E number \in NumbersFor(router, buildConfig) :
            \E response \in ResponsesFor(router, buildConfig, number) :
                call' = _stop(router, buildConfig, number, response)
    /\ router' = RouterAfterCall(router, call')
    /\ UNCHANGED <<config, required>>

Next == Construct \/ Start \/ Stop

Spec == Init /\ [][Next]_vars
-----------------------------------------------------------------------------
(* Entries with a pluginName, and verify.  src/index.js neither reads        *)
(* pluginName nor defines _verify; the test suite of the repository          *)
(* (beforeEach, 'uses proper executor when called with a different name',   *)
(* describe _verify) exercises both, and they are modelled here as the      *)
(* specification words them, in a state machine of their own (PluginSpec).  *)

\* the modules the test suite registers
InstalledPlugins == {"k8s", "example", "test"}

PluginEntryNames == {"k8s", "test-sandbox", "test", "DNE"}
PluginNames == {UNDEFINED, "test", "DNE"}
PluginWeightages == {WNumber(0), WNumber(4)}

PluginSpecs ==
    [name : PluginEntryNames, pluginName : PluginNames,
     weightage : PluginWeightages, exclusions : {NoExclusions}]

RECURSIVE PluginLists(_)
PluginLists(n) ==
    IF n = 0 THEN {<<>>}
    ELSE LET shorter == PluginLists(n - 1)
         IN  shorter \cup
             {Append(l, e) : l \in {x \in shorter : Len(x) = n - 1},
                             e \in PluginSpecs}

PluginConfigs ==
    [given : {TRUE},
     executor : {[kind |-> "array", list |-> l] :
                    l \in {x \in PluginLists(MaxExecutors) :
                              x /= <<>> /\ DistinctNames(x)}},
     defaultPlugin : {UNDEFINED, "test"}]

PluginCallConfigs ==
    [annotations : {NoAnnotations}
                   \cup [present : {TRUE}, prefix : {"screwdriver.cd/"},
                         key : {"executor"}, value : PluginEntryNames],
     container : {NoContainer, Str(<<"r", "7">>)},
     buildId : BuildIds]

\* variant of PluginModule: pluginName is not read
PluginModuleByName(plugin) == plugin.name

\* the implementation an entry is resolved through: by pluginName if
\* present, else name
PluginModule(plugin) ==
    IF Truthy(plugin.pluginName) THEN plugin.pluginName ELSE plugin.name

\* the entry's implementation resolves
ResolvesPlugin(plugin) == PluginModule(plugin) \in InstalledPlugins

\* the candidates: the entries whose implementation resolves
RegisteredPlugins(list) == SelectSeq(list, ResolvesPlugin)

\* the instance of each resolved entry, registered under the entry's name
PluginInstances(list) ==
    [name \in {list[i].name : i \in {k \in 1..Len(list) : ResolvesPlugin(list[k])}}
        |-> [module |-> PluginModule(CHOOSE e \in {list[i] : i \in 1..Len(list)} :
                                         e.name = name)]]

ConstructorWithPluginName(c) ==
    LET executors == RegisteredPlugins(c.executor.list)
        names     == [i \in 1..Len(c.executor.list) |->
                         PluginModule(c.executor.list[i])]
    IN  IF ExecutorConfigMissing(c.executor)
        THEN [router |-> Thrown(NoExecutorConfig), required |-> <<>>]
        ELSE IF ~Truthy(DefaultCheck(c.defaultPlugin, executors))
        THEN [router |-> Thrown(NoDefaultExecutor), required |-> names]
        ELSE [router |-> [status |-> "constructed", error |-> "",
                          _executors |-> executors,
                          instances |-> PluginInstances(c.executor.list),
                          defaultPlugin |-> c.defaultPlugin],
              required |-> names]

\* variant of _verify: the router has no _verify of its own and the one it
\* inherits rejects without reaching an executor
_verifyNotImplemented(r, buildConfig, number, response) ==
    [Forward("verify", r, buildConfig, number, response) EXCEPT
        !.invocations = <<>>, !.invoked = UNDEFINED,
        !.response = NoResponse, !.returned = Rejected("Not implemented")]

\* verify: the rule chain gives the executor, the call is forwarded unchanged
_verify(r, buildConfig, number, response) ==
    Forward("verify", r, buildConfig, number, response)

PluginInit ==
    /\ config \in PluginConfigs
    /\ router = NotConstructed
    /\ required = <<>>
    /\ call = NoCall

ConstructWithPluginName ==
    /\ router.status = "new"
    /\ router' = ConstructorWithPluginName(config).router
    /\ required' = ConstructorWithPluginName(config).required
    /\ UNCHANGED <<config, call>>

\* router.start(config), router.stop(config) or router.verify(config)
StartPlugin ==
    /\ router.status = "constructed"
    /\ call.op = "none"
    /\ \E buildConfig \in PluginCallConfigs :
         \E number \in NumbersFor(router, buildConfig) :
            \E response \in ResponsesFor(router, buildConfig, number) :
                call' = _start(router, buildConfig, number, response)
    /\ router' = RouterAfterCall(router, call')
    /\ UNCHANGED <<config, required>>

StopPlugin ==
    /\ router.status = "constructed"
    /\ call.op = "none"
    /\ \E buildConfig \in PluginCallConfigs :
         \E number \in NumbersFor(router, buildConfig) :
            \E response \in ResponsesFor(router, buildConfig, number) :
                call' = _stop(router, buildConfig, number, response)
    /\ router' = RouterAfterCall(router, call')
    /\ UNCHANGED <<config, required>>

Verify ==
    /\ router.status = "constructed"
    /\ call.op = "none"
    /\ \E buildConfig \in PluginCallConfigs :
         \E number \in NumbersFor(router, buildConfig) :
            \E response \in ResponsesFor(router, buildConfig, number) :
                call' = _verify(router, buildConfig, number, response)
    /\ router' = RouterAfterCall(router, call')
    /\ UNCHANGED <<config, required>>

PluginNext == ConstructWithPluginName \/ StartPlugin \/ StopPlugin \/ Verify

PluginSpec == PluginInit /\ [][PluginNext]_vars

-----------------------------------------------------------------------------
(* getWeightedExecutor on its own: the selector applied to a list of        *)
(* candidates, over a wider range of weightage values than the router's     *)
(* state machine carries                                                    *)

SelectorWeightages ==
    {WUndefined, WNumber(0), WNumber(2), WNumber(4), WNumber(3), WNumber(-2),
     WString(<<"0">>), WString(<<"2">>), WString(<<"1", ".", "5">>),
     WString(<<"-", "1">>), WString(<<"a">>)}

SelectorSpecs ==
    [name : InstalledPlugins, weightage : SelectorWeightages,
     exclusions : {NoExclusions}]

RECURSIVE SelectorLists(_)
SelectorLists(n) ==
    IF n = 0 THEN {<<>>}
    ELSE LET shorter == SelectorLists(n - 1)
         IN  shorter \cup
             {Append(l, e) : l \in {x \in shorter : Len(x) = n - 1},
                             e \in SelectorSpecs}

\* the argument of getWeightedExecutor: a list of candidates, held in config
SelectorInputs ==
    [given : {TRUE},
     executor : {[kind |-> "array", list |-> l] :
                    l \in {x \in SelectorLists(MaxExecutors) : DistinctNames(x)}},
     defaultPlugin : {UNDEFINED}]

\* what each candidate adds to totalWeight (+weightage || 0) and to sum
\* (parseInt(weightage, 10) || 0), in halves
TotalTerms(executors) ==
    [i \in 1..Len(executors) |-> OrZero(ToNumber(executors[i].weightage))]

WalkTerms(executors) ==
    [i \in 1..Len(executors) |-> OrZero(ParseInt(executors[i].weightage))]

\* one run of getWeightedExecutor(executors) with Math.random() giving number
Selection(executors, number) ==
    [op |-> "getWeightedExecutor", executors |-> executors,
     totalTerms |-> TotalTerms(executors), walkTerms |-> WalkTerms(executors),
     totalWeight |-> TotalWeight(executors), number |-> number,
     result |-> GetWeightedExecutor(executors, number),
     fallback |-> TotalWeight(executors) /= 0
                    /\ WalkFallsThrough(executors, 1, 0, number)]

SelectorInit ==
    /\ config \in SelectorInputs
    /\ router = NotConstructed
    /\ required = <<>>
    /\ call = NoCall

SelectWeighted ==
    /\ call.op = "none"
    /\ LET executors == config.executor.list
           total     == TotalWeight(executors)
       IN  \E number \in (IF total = 0 THEN {0} ELSE RandomNumbers(total)) :
              call' = Selection(executors, number)
    /\ UNCHANGED <<config, router, required>>

SelectorNext == SelectWeighted

SelectorSpec == SelectorInit /\ [][SelectorNext]_vars

-----------------------------------------------------------------------------
(* Construction of the instances: the options of an entry and the shared    *)
(* ecosystem (OptionsSpec)                                                  *)

\* the keys an options object is followed on
OptionKeys == {"ecosystem", "prefix"}

\* config.ecosystem: absent or an object
EcosystemValues == {UNDEFINED, "{api, store}"}

\* the empty object {}
EmptyObject == "{}"

\* plugin.options: absent, or an object in which a key is absent (UNDEFINED)
\* or has a value
NoOptions == [present |-> FALSE, map |-> [k \in OptionKeys |-> UNDEFINED]]
Options(ecosystem, prefix) ==
    [present |-> TRUE,
     map |-> [k \in OptionKeys |-> IF k = "ecosystem" THEN ecosystem ELSE prefix]]

OptionValues ==
    {NoOptions}
    \cup {Options(e, p) : e \in {UNDEFINED, "{own}"},
                          p \in {UNDEFINED, "EXECUTOR_PREFIX"}}

OptionSpecs ==
    [name : ExecutorNames, options : OptionValues,
     weightage : {WUndefined}, exclusions : {NoExclusions}]

RECURSIVE OptionLists(_)
OptionLists(n) ==
    IF n = 0 THEN {<<>>}
    ELSE LET shorter == OptionLists(n - 1)
         IN  shorter \cup
             {Append(l, e) : l \in {x \in shorter : Len(x) = n - 1},
                             e \in OptionSpecs}

OptionConfigs ==
    [given : {TRUE},
     executor : {[kind |-> "array", list |-> l] :
                    l \in {x \in OptionLists(MaxExecutors) :
                              x /= <<>> /\ DistinctNames(x)}},
     defaultPlugin : {UNDEFINED},
     ecosystem : EcosystemValues]

\* const ecosystem = config.ecosystem || {}
EcosystemOf(c) == IF Truthy(c.ecosystem) THEN c.ecosystem ELSE EmptyObject

\* variant of ObjectAssign: a key the target has keeps the target's value
ObjectAssignTargetWins(target, source) ==
    IF ~source.present THEN target
    ELSE [k \in OptionKeys |->
            IF target[k] /= UNDEFINED THEN target[k] ELSE source.map[k]]

\* Object.assign(target, source): the keys of source are written over target;
\* an undefined source is skipped
ObjectAssign(target, source) ==
    IF ~source.present THEN target
    ELSE [k \in OptionKeys |->
            IF source.map[k] /= UNDEFINED THEN source.map[k] ELSE target[k]]

\* const options = Object.assign({ ecosystem }, plugin.options)
PluginOptions(ecosystem, plugin) ==
    ObjectAssign([k \in OptionKeys |-> IF k = "ecosystem" THEN ecosystem
                                       ELSE UNDEFINED],
                 plugin.options)

\* this[plugin.name] = new ExecutorPlugin(options), for the entries whose
\* module resolves
InstancesWithOptions(ecosystem, list) ==
    [name \in {list[i].name : i \in {k \in 1..Len(list) : Resolves(list[k].name)}}
        |-> [module |-> name,
             constructorParams |->
                 PluginOptions(ecosystem,
                               CHOOSE e \in {list[i] : i \in 1..Len(list)} :
                                   e.name = name)]]

\* the constructor, the options handed to each plugin included
ConstructorWithOptions(c) ==
    LET made == Constructor(c)
    IN  IF made.router.status /= "constructed" THEN made
        ELSE [made EXCEPT !.router.instances =
                 InstancesWithOptions(EcosystemOf(c), c.executor.list)]

OptionsInit ==
    /\ config \in OptionConfigs
    /\ router = NotConstructed
    /\ required = <<>>
    /\ call = NoCall

ConstructWithOptions ==
    /\ router.status = "new"
    /\ router' = ConstructorWithOptions(config).router
    /\ required' = ConstructorWithOptions(config).required
    /\ UNCHANGED <<config, call>>

OptionsNext == ConstructWithOptions

OptionsSpec == OptionsInit /\ [][OptionsNext]_vars

-----------------------------------------------------------------------------
(* Several calls on one router.  Spec follows a router up to its first call; *)
(* CallsSpec follows it through up to MaxCalls start and stop calls, each    *)
(* made on the router the calls before it left behind.  The call record      *)
(* keeps the earlier calls in `earlier`.  A call runs to its promise without *)
(* yielding before the executor operation is invoked (getExecutor is         *)
(* synchronous), so concurrent calls are the calls of one log in some order. *)

MaxCalls == 2

\* two resolvable entries; the first may carry an exclusion pattern
SeriesConfigs ==
    {[given |-> TRUE,
      executor |-> [kind |-> "array",
                    list |-> << [name |-> "k8s", weightage |-> w1, exclusions |-> e1],
                                [name |-> "example", weightage |-> w2,
                                 exclusions |-> NoExclusions] >>],
      defaultPlugin |-> d] :
        w1 \in {WNumber(0), WNumber(2)}, w2 \in {WNumber(0), WNumber(2)},
        e1 \in {NoExclusions, Exclusions(<< <<"R", "6">> >>)},
        d \in {UNDEFINED, "example"}}

SeriesAnnotations ==
    {NoAnnotations}
    \cup [present : {TRUE}, prefix : {"beta.screwdriver.cd/"}, key : {"executor"},
          value : {"k8s", "constructor"}]

SeriesCallConfigs ==
    [annotations : SeriesAnnotations,
     container : {NoContainer, Str(<<"h", "r", "6">>), Str(<<"r", "7">>)},
     buildId : BuildIds]

\* the calls made so far, oldest first
CallLog ==
    IF call.op = "none" THEN <<>>
    ELSE Append(call.earlier, [call EXCEPT !.earlier = <<>>])

SeriesInit ==
    /\ config \in SeriesConfigs
    /\ router = NotConstructed
    /\ required = <<>>
    /\ call = NoCall

\* router.start(config), after any calls made before
StartNext ==
    /\ router.status = "constructed"
    /\ Len(CallLog) < MaxCalls
    /\ \E buildConfig \in SeriesCallConfigs :
         \E number \in NumbersFor(router, buildConfig) :
            \E response \in ResponsesFor(router, buildConfig, number) :
                call' = [_start(router, buildConfig, number, response)
                            EXCEPT !.earlier = CallLog]
    /\ router' = RouterAfterCall(router, call')
    /\ UNCHANGED <<config, required>>

\* router.stop(config), after any calls made before
StopNext ==
    /\ router.status = "constructed"
    /\ Len(CallLog) < MaxCalls
    /\ \E buildConfig \in SeriesCallConfigs :
         \E number \in NumbersFor(router, buildConfig) :
            \E response \in ResponsesFor(router, buildConfig, number) :
                call' = [_stop(router, buildConfig, number, response)
                            EXCEPT !.earlier = CallLog]
    /\ router' = RouterAfterCall(router, call')
    /\ UNCHANGED <<config, required>>

CallsNext == Construct \/ StartNext \/ StopNext

CallsSpec == SeriesInit /\ [][CallsNext]_vars

-----------------------------------------------------------------------------
(* Vocabulary of the properties *)

\* a start or stop call has been made
Called == call.op \in {"start", "stop"}

\* the names under which an executor is registered on the router
RegisteredNames == {router._executors[i].name : i \in 1..Len(router._executors)}

\* the value the call's annotations give for the executor key, any of the
\* annotation prefixes included
NamedByAnnotation ==
    LET a == call.config.annotations
    IN  IF a.present /\ a.key = "executor"
           /\ a.prefix \in {"", "beta.screwdriver.cd/", "screwdriver.cd/"}
        THEN a.value
        ELSE UNDEFINED

\* the call's annotations name a registered executor
UsableAnnotation == NamedByAnnotation \in RegisteredNames

\* the registered candidate with this name
Candidate(name) ==
    CHOOSE c \in {router._executors[i] : i \in 1..Len(router._executors)} :
        c.name = name

\* pattern occurs in chars, letter case ignored
ContainsIgnoringCase(pattern, chars) ==
    \E i, j \in 1..(Len(chars) + 1) :
        /\ j - i = Len(pattern)
        /\ \A k \in 1..Len(pattern) : LowerOf[chars[i + k - 1]] = LowerOf[pattern[k]]

\* some exclusion pattern of candidate c matches the call's container
ExcludedForCall(c) ==
    /\ c.exclusions.present
    /\ call.config.container.present
    /\ \E k \in 1..Len(c.exclusions.items) :
          ContainsIgnoringCase(c.exclusions.items[k], call.config.container.chars)

\* the candidates left by the exclusion filter for the call, where it ran
EligibleForCall == CheckExclusions(router._executors, call.config.container)

\* a weightage as the data model reads it: a non-negative integer, in halves
\* (absent, non-numeric and negative count as 0, strings are parsed as integers)
IntegerWeight(w) ==
    LET p == OrZero(ParseInt(w)) IN IF p < 0 THEN 0 ELSE p

RECURSIVE IntegerTotal(_)
IntegerTotal(executors) ==
    IF executors = <<>> THEN 0
    ELSE IntegerWeight(Head(executors).weightage) + IntegerTotal(Tail(executors))

\* the name the default rule stands for: defaultPlugin when set, otherwise the
\* first registered candidate
DefaultName ==
    IF router.defaultPlugin /= UNDEFINED THEN router.defaultPlugin
    ELSE IF Len(router._executors) > 0 THEN router._executors[1].name
    ELSE UNDEFINED

\* some candidate carries at least one exclusion pattern
SomeExclusions ==
    \E i \in 1..Len(router._executors) :
        router._executors[i].exclusions.present
        /\ router._executors[i].exclusions.items /= <<>>

-----------------------------------------------------------------------------
(* C1 *)

\* C1: when the annotations of a start or stop call name a registered
\* executor X, the call is forwarded to X and to nothing else, whatever the
\* weights, the default and the number drawn.
AnnotationOverrideWins ==
    (Called /\ UsableAnnotation) =>
        /\ call.invoked = NamedByAnnotation
        /\ call.rule = "annotated"
        /\ call.error = ""

\* C1 witness: the annotation names X and X is invoked although the weighted
\* rule would have picked another executor and the default is another one.
AnnotationOverrideWitness ==
    /\ Called /\ UsableAnnotation
    /\ call.invoked = NamedByAnnotation
    /\ call.config.container.present
    /\ DefaultName /= NamedByAnnotation
    /\ TotalWeight(EligibleForCall) > 0
    /\ \A n \in RandomNumbers(TotalWeight(EligibleForCall)) :
          GetWeightedExecutor(EligibleForCall, n) /= NamedByAnnotation

-----------------------------------------------------------------------------
(* C2 *)

\* C2: for a call with no usable annotation, when the candidates that pass
\* the exclusion filter have total weight greater than 0, the executor
\* invoked is one of those candidates and has positive weight (so it is the
\* default only if the default is such a candidate).
WeightedBeforeDefault ==
    (/\ Called /\ NamedByAnnotation = UNDEFINED
     /\ "weighted" \notin call.failed
     /\ IntegerTotal(EligibleForCall) > 0
     /\ TotalWeight(EligibleForCall) > 0) =>
        \E i \in 1..Len(EligibleForCall) :
            /\ call.invoked = EligibleForCall[i].name
            /\ IntegerWeight(EligibleForCall[i].weightage) > 0
            /\ OrZero(ToNumber(EligibleForCall[i].weightage)) > 0

-----------------------------------------------------------------------------
(* C3 *)

\* C3: for a call whose annotation is absent or names no registered executor,
\* when the eligible candidates have total weight 0, the executor invoked is
\* the default one: defaultPlugin when set, otherwise the first registered
\* candidate.
DefaultFallback ==
    (/\ Called /\ ~UsableAnnotation
     /\ DefaultName \in RegisteredNames
     /\ "weighted" \notin call.failed
     /\ IntegerTotal(EligibleForCall) = 0
     /\ TotalWeight(EligibleForCall) = 0) =>
        /\ call.invoked = DefaultName
        /\ call.error = ""

-----------------------------------------------------------------------------
(* C4 *)

\* C4: a candidate one of whose exclusion patterns matches the call's
\* container (as a case-insensitive pattern) is never the one the weighted
\* rule chooses, whatever its weight; and a candidate with exclusions none
\* of which matches the container is kept by the exclusion filter.
ExclusionCorrectness ==
    Called =>
        /\ call.rule = "weighted" => ~ExcludedForCall(Candidate(call.executorName))
        /\ call.config.container.present =>
              \A i \in 1..Len(router._executors) :
                  LET c == router._executors[i]
                  IN  (c.exclusions.present /\ ~ExcludedForCall(c)) =>
                          \E k \in 1..Len(EligibleForCall) : EligibleForCall[k] = c

\* C4 witness: the weighted rule chooses a candidate that has exclusions,
\* none of them matching the container of the call.
ExclusionCorrectnessWitness ==
    /\ Called /\ call.rule = "weighted"
    /\ call.config.container.present
    /\ call.config.container.chars /= <<>>
    /\ Candidate(call.executorName).exclusions.items /= <<>>
    /\ ~ExcludedForCall(Candidate(call.executorName))
    /\ call.invoked = call.executorName
-----------------------------------------------------------------------------
(* C5 *)

\* C5, as stated: when the call's container is absent or empty and a
\* candidate has exclusions, the exclusion filter does not fail and the
\* weighted rule still runs, so that it selects a candidate when the
\* candidates have positive total weight.
AbsentContainerEligible ==
    (/\ Called /\ NamedByAnnotation = UNDEFINED
     /\ SomeExclusions
     /\ (~call.config.container.present \/ call.config.container.chars = <<>>)) =>
        /\ "weighted" \notin call.failed
        /\ TotalWeight(router._executors) > 0 => call.rule = "weighted"

\* C5, amended: when the container is absent and a candidate has a non-empty
\* exclusions list, the exclusion filter fails, the weighted rule yields no
\* result and the call falls through to the default rule; when the container
\* is the empty string the filter does not fail, a candidate stays eligible
\* unless one of its patterns matches the empty string, and the weighted rule
\* selects a candidate when the total weight is not 0.
ContainerAbsentOrEmpty ==
    (Called /\ call.rule /= "annotated" /\ SomeExclusions) =>
        /\ ~call.config.container.present =>
              /\ call.failed = {"weighted"}
              /\ call.rule \in {"default", "none"}
              /\ call.executorName = DefaultName
        /\ (call.config.container.present /\ call.config.container.chars = <<>>) =>
              /\ call.failed = {}
              /\ \A i \in 1..Len(router._executors) :
                    LET c == router._executors[i]
                    IN  (\E k \in 1..Len(EligibleForCall) : EligibleForCall[k] = c)
                        <=> ~(c.exclusions.present
                              /\ \E k \in 1..Len(c.exclusions.items) :
                                    c.exclusions.items[k] = <<>>)
              /\ TotalWeight(EligibleForCall) /= 0 => call.rule = "weighted"

\* C5 witness: no container, a candidate with exclusions, another candidate
\* with positive weight and no exclusions, and the call went to the default.
ContainerAbsentWitness ==
    /\ Called /\ NamedByAnnotation = UNDEFINED
    /\ ~call.config.container.present
    /\ SomeExclusions
    /\ call.rule = "default" /\ call.invoked = DefaultName
    /\ \E i \in 1..Len(router._executors) :
          /\ router._executors[i].name /= DefaultName
          /\ ~router._executors[i].exclusions.present
          /\ IntegerWeight(router._executors[i].weightage) > 0

-----------------------------------------------------------------------------
(* C6 *)

\* C6: when stop is called with no container and no annotation on a router in
\* which some candidate has exclusions, the default executor (a registered
\* one) is invoked and no other candidate is.
StopSelectionErrorDefault ==
    (/\ call.op = "stop"
     /\ ~call.config.container.present
     /\ ~call.config.annotations.present
     /\ SomeExclusions
     /\ DefaultName \in RegisteredNames) =>
        /\ call.invoked = DefaultName
        /\ call.rule = "default"
        /\ call.error = ""

\* C6 witness: such a stop call went to the configured default although
\* another candidate has positive weight and no exclusions.
StopSelectionErrorWitness ==
    /\ call.op = "stop"
    /\ ~call.config.container.present
    /\ ~call.config.annotations.present
    /\ SomeExclusions
    /\ router.defaultPlugin /= UNDEFINED
    /\ call.invoked = router.defaultPlugin
    /\ \E i \in 1..Len(router._executors) :
          /\ router._executors[i].name /= router.defaultPlugin
          /\ ~router._executors[i].exclusions.present
          /\ IntegerWeight(router._executors[i].weightage) > 0

-----------------------------------------------------------------------------
(* C7 *)

\* C7: construction with no configuration, or with an executor list that is
\* missing, not a sequence or empty, fails with 'No executor config passed
\* in.' before any plugin is resolved, and no router is produced.
NoExecutorConfigFails ==
    (/\ router.status /= "new"
     /\ \/ ~config.given
        \/ config.executor.kind /= "array"
        \/ config.executor.list = <<>>) =>
        /\ router.status = "threw"
        /\ router.error = "No executor config passed in."
        /\ required = <<>>
        /\ call.op = "none"

\* C7 witness: construction was attempted with an empty executor list and a
\* default plugin, and it threw.
NoExecutorConfigWitness ==
    /\ router.status = "threw"
    /\ config.given /\ config.executor.kind = "array" /\ config.executor.list = <<>>
    /\ config.defaultPlugin = "example"

-----------------------------------------------------------------------------
(* C8 *)

\* the entries of the configured list whose module can be resolved
ResolvableEntries ==
    {i \in 1..Len(config.executor.list) :
        config.executor.list[i].name \in InstalledModules}

\* C8: with a non-empty executor list, construction fails with 'No default
\* executor set.' when no entry resolves and no default plugin is given, and
\* succeeds, registering exactly the entries that resolve, when at least one
\* entry resolves.
PartialResolution ==
    (/\ router.status /= "new"
     /\ config.given /\ config.executor.kind = "array"
     /\ config.executor.list /= <<>>) =>
        /\ (ResolvableEntries = {} /\ config.defaultPlugin = UNDEFINED) =>
              (router.status = "threw" /\ router.error = "No default executor set.")
        /\ ResolvableEntries /= {} =>
              /\ router.status = "constructed"
              /\ RegisteredNames =
                    {config.executor.list[i].name : i \in ResolvableEntries}

\* C8 witness: a router was constructed from a list one entry of which did
\* not resolve.
PartialResolutionWitness ==
    /\ router.status = "constructed"
    /\ config.defaultPlugin = UNDEFINED
    /\ ResolvableEntries /= {}
    /\ Cardinality(ResolvableEntries) < Len(config.executor.list)
    /\ Len(required) = Len(config.executor.list)

-----------------------------------------------------------------------------
(* C9 *)

\* C9: every router that construction returns has at least one registered
\* executor and a default rule whose result is a registered name.
ConstructionInvariant ==
    router.status = "constructed" =>
        /\ Len(router._executors) >= 1
        /\ DefaultName \in RegisteredNames

-----------------------------------------------------------------------------
(* C10 *)

\* C10: on a router constructed from a list in which every entry resolves and
\* with a valid default, every start and stop call is forwarded to one of the
\* instances created at construction.
RoutesToRegistered ==
    (/\ Called
     /\ Cardinality(ResolvableEntries) = Len(config.executor.list)
     /\ DefaultName \in RegisteredNames) =>
        /\ call.target = "instance"
        /\ call.invoked \in DOMAIN router.instances
        /\ call.error = ""

-----------------------------------------------------------------------------
(* C11 *)

\* C11: when the executor a start or stop call resolves to rejects with an
\* error E, the call rejects with that same E, the operation was invoked
\* once only and on that executor only.
FailurePropagation ==
    (Called /\ call.target = "instance" /\ call.response.kind = "rejected") =>
        /\ call.returned = call.response
        /\ Len(call.invocations) = 1
        /\ call.invocations[1].executor = call.invoked
        /\ call.invocations[1].op = call.op

\* C11 witness: a stop routed by the weighted rule was rejected by its
\* executor, the call rejected with the same error, and the default
\* executor, another registered one, was not tried.
FailurePropagationWitness ==
    /\ call.op = "stop" /\ call.rule = "weighted"
    /\ call.response = Rejected("triggeredError")
    /\ call.returned = Rejected("triggeredError")
    /\ DefaultName \in RegisteredNames /\ DefaultName /= call.invoked
    /\ \A k \in 1..Len(call.invocations) :
          call.invocations[k].executor /= DefaultName

-----------------------------------------------------------------------------
(* C12 *)

\* C12: the executor a start or stop call resolves to is handed the
\* caller's configuration with every field as the caller gave it, and the
\* call's result is the executor's result.
PassThrough ==
    (Called /\ call.target = "instance") =>
        /\ call.invocations =
              << [executor |-> call.invoked, op |-> call.op, config |-> call.config] >>
        /\ call.returned = call.response

\* C12 witness: a start whose configuration carries a prefixed annotation, a
\* container and a build id reached an executor unchanged, and the call
\* resolved with the executor's result.
PassThroughWitness ==
    /\ call.op = "start" /\ call.target = "instance"
    /\ call.config.annotations.present
    /\ call.config.annotations.prefix = "screwdriver.cd/"
    /\ call.config.container.present /\ call.config.container.chars /= <<>>
    /\ call.invocations[1].config = call.config
    /\ call.invocations[1].config.buildId = 920
    /\ call.response = Resolved("exampleExecutorMockResult")
    /\ call.returned = Resolved("exampleExecutorMockResult")

-----------------------------------------------------------------------------
(* C13 *)

-----------------------------------------------------------------------------
(* C14 *)

\* what a call's routing consists of
Routing(c) ==
    [executorName |-> c.executorName, rule |-> c.rule, failed |-> c.failed,
     target |-> c.target, invoked |-> c.invoked]

-----------------------------------------------------------------------------
(* C15 *)

\* the entries of the configured list whose module cannot be resolved
UnresolvableEntries == (1..Len(config.executor.list)) \ ResolvableEntries

\* C15: an entry whose implementation does not resolve is neither a
\* candidate nor a registered name; no call has it as the result of the
\* weighted rule or of the default rule, an annotation naming it does not end
\* rule evaluation, and construction does not fail when another entry
\* resolves.
UnresolvedLeftOut ==
    (router.status /= "new" /\ config.given /\ config.executor.kind = "array") =>
        \A i \in UnresolvableEntries :
            LET name == config.executor.list[i].name
            IN  /\ ResolvableEntries /= {} => router.status = "constructed"
                /\ router.status = "constructed" =>
                      /\ name \notin RegisteredNames
                      /\ name \notin DOMAIN router.instances
                /\ Called =>
                      /\ call.invoked /= name
                      /\ call.executorName /= name
                      /\ NamedByAnnotation = name => call.rule /= "annotated"

-----------------------------------------------------------------------------
(* C16 *)

\* the call's configuration without its annotations
WithoutAnnotations == [call.config EXCEPT !.annotations = NoAnnotations]

\* how a call with configuration c can end on the router: the executor
\* invoked and the error of the call, over every draw
OutcomesOf(c) ==
    {[invoked |-> o.invoked, error |-> o.error] :
        o \in {Forward(call.op, router, c, n, call.response) :
                  n \in NumbersFor(router, c)}}

\* C16: a call whose annotation gives an executor name that is not
\* registered can end exactly as the same call without annotations can: the
\* same executors can be invoked, and the call fails only if that one does.
UnregisteredAnnotationIgnored ==
    (Called /\ NamedByAnnotation /= UNDEFINED /\ ~UsableAnnotation) =>
        /\ OutcomesOf(call.config) = OutcomesOf(WithoutAnnotations)
        /\ [invoked |-> call.invoked, error |-> call.error]
              \in OutcomesOf(WithoutAnnotations)

\* the same for an annotation that names neither a registered executor nor
\* a member of the router
UnregisteredNonMemberIgnored ==
    (Called /\ NamedByAnnotation /= UNDEFINED /\ ~UsableAnnotation
        /\ NamedByAnnotation \notin RouterMembers) =>
        /\ OutcomesOf(call.config) = OutcomesOf(WithoutAnnotations)
        /\ [invoked |-> call.invoked, error |-> call.error]
              \in OutcomesOf(WithoutAnnotations)

-----------------------------------------------------------------------------
(* C17 *)

\* C17: when the evaluation of a rule fails during a start or stop call, the
\* rules after it are still consulted and the failed rule contributes no
\* name: the call ends with the result of the default rule, and on a router
\* whose default is a registered executor that executor is invoked.
RuleFailureFallsThrough ==
    (Called /\ call.failed /= {}) =>
        /\ "default" \notin call.failed
        /\ call.rule \in {"default", "none"}
        /\ call.executorName = DefaultName
        /\ call.rule = "none" <=> DefaultName \notin RegisteredNames
        /\ DefaultName \in RegisteredNames =>
              /\ call.invoked = DefaultName
              /\ call.error = ""
              /\ Len(call.invocations) = 1

\* C17 witness: the annotated rule gave a name that is not registered, the
\* weighted rule failed, and the start reached the default executor, which
\* resolved.
RuleFailureWitness ==
    /\ call.op = "start" /\ call.failed = {"weighted"}
    /\ NamedByAnnotation = "DNE" /\ "DNE" \notin RegisteredNames
    /\ call.rule = "default" /\ call.invoked = DefaultName
    /\ call.returned = Resolved("exampleExecutorMockResult")
    /\ Len(router._executors) > 1

-----------------------------------------------------------------------------
(* C18, C19, C20: the weighted selector *)

\* getWeightedExecutor has run
Selected == call.op = "getWeightedExecutor"

\* a weightage that is a non-negative integer: a number or a string of
\* decimal digits
NonNegativeInteger(w) ==
    \/ w.type = "number" /\ w.half >= 0 /\ w.half % 2 = 0
    \/ w.type = "string" /\ w.chars /= <<>>
          /\ LeadingDigits(w.chars) = Len(w.chars)

\* a weightage that is 0 however it is read: by the total, by the walk and
\* as a non-negative integer
ZeroWeight(w) ==
    /\ OrZero(ToNumber(w)) = 0
    /\ OrZero(ParseInt(w)) = 0
    /\ IntegerWeight(w) = 0

\* the sum of the first i terms
RECURSIVE CumulativeOf(_, _)
CumulativeOf(terms, i) ==
    IF i = 0 THEN 0 ELSE CumulativeOf(terms, i - 1) + terms[i]

\* candidate i is the first whose cumulative weight exceeds the draw d, the
\* weights being `terms` (in halves)
FirstExceeding(terms, i, d) ==
    /\ CumulativeOf(terms, i) > 2 * d
    /\ \A j \in 1..(i - 1) : CumulativeOf(terms, j) <= 2 * d

\* C18: what the selector adds for a candidate is a non-negative integer,
\* the weightage parsed as an integer with absent, non-numeric and negative
\* values counting as 0, and it is the same in the total and in the walk.
WeightCoercion ==
    Selected =>
        \A i \in 1..Len(call.executors) :
            LET w == IntegerWeight(call.executors[i].weightage)
            IN  /\ w >= 0 /\ w % 2 = 0
                /\ call.totalTerms[i] = w
                /\ call.walkTerms[i] = w

\* C19: the candidate the selector returns never has weight 0.
ZeroWeightNeverSelected ==
    (Selected /\ call.result /= UNDEFINED) =>
        \A i \in 1..Len(call.executors) :
            call.executors[i].name = call.result
                => ~ZeroWeight(call.executors[i].weightage)

\* C20: when the total weight T is greater than 0 the number drawn is an
\* integer d with 0 <= d < T and the result is the first candidate whose
\* cumulative weight exceeds d (the weight of a candidate being what the
\* total counts for it, or what the walk counts for it); and when every
\* weight is a non-negative integer, the draws of [0, T) that give a
\* candidate are as many as its weight.
WeightedWalkProportional ==
    (Selected /\ call.totalWeight > 0) =>
        /\ 0 <= call.number /\ 2 * call.number < call.totalWeight
        /\ \E i \in 1..Len(call.executors) :
              /\ call.result = call.executors[i].name
              /\ \/ FirstExceeding(call.totalTerms, i, call.number)
                 \/ FirstExceeding(call.walkTerms, i, call.number)
        /\ (\A i \in 1..Len(call.executors) :
                NonNegativeInteger(call.executors[i].weightage)) =>
              \A i \in 1..Len(call.executors) :
                  2 * Cardinality({d \in RandomNumbers(call.totalWeight) :
                        GetWeightedExecutor(call.executors, d)
                            = call.executors[i].name})
                    = IntegerWeight(call.executors[i].weightage)

\* the same for lists in which every weight is a non-negative integer
WeightedWalkOfIntegers ==
    (\A i \in 1..Len(config.executor.list) :
        NonNegativeInteger(config.executor.list[i].weightage))
        => WeightedWalkProportional

-----------------------------------------------------------------------------
(* C21 *)

\* C21: every entry whose module resolves gives an instance recorded under
\* the entry's name and constructed with the entry's options plus an
\* ecosystem key: the ecosystem of the construction input, or an empty
\* object when it has none, unless the entry's options carry an ecosystem
\* key of their own, which is kept.
OptionsWithEcosystem ==
    router.status = "constructed" =>
        /\ DOMAIN router.instances =
              {config.executor.list[i].name : i \in ResolvableEntries}
        /\ \A i \in ResolvableEntries :
              LET e      == config.executor.list[i]
                  params == router.instances[e.name].constructorParams
                  own(k) == IF e.options.present THEN e.options.map[k]
                            ELSE UNDEFINED
              IN  /\ router.instances[e.name].module = e.name
                  /\ \A k \in OptionKeys \ {"ecosystem"} : params[k] = own(k)
                  /\ params["ecosystem"] =
                        IF own("ecosystem") /= UNDEFINED THEN own("ecosystem")
                        ELSE IF config.ecosystem = UNDEFINED THEN "{}"
                        ELSE config.ecosystem

\* C21 witness: a router built from an input with an ecosystem and two
\* entries, one whose options carry their own ecosystem key, which it kept,
\* and one with no options, which received the shared ecosystem.
OptionsWithEcosystemWitness ==
    /\ router.status = "constructed"
    /\ config.ecosystem = "{api, store}"
    /\ DOMAIN router.instances = {"k8s", "example"}
    /\ router.instances["k8s"].constructorParams["ecosystem"] = "{own}"
    /\ router.instances["k8s"].constructorParams["prefix"] = "EXECUTOR_PREFIX"
    /\ router.instances["example"].constructorParams["ecosystem"] = "{api, store}"
    /\ router.instances["example"].constructorParams["prefix"] = UNDEFINED

-----------------------------------------------------------------------------
(* C22 *)

\* the routings a call with configuration c can have on router r, over
\* every draw of the weighted rule
RoutingsOn(r, c) ==
    IF r.status /= "constructed" THEN {}
    ELSE {Routing(Forward("start", r, c, n, NoResponse)) : n \in NumbersFor(r, c)}

\* C22: whatever start and stop calls have been made, the router still has
\* the candidate list, the default and the name-to-instance map construction
\* gave it, and every call made was routed in one of the ways the same call
\* can be routed on the router as constructed.
RouterImmutable ==
    router.status = "constructed" =>
        LET constructed == Constructor(config).router
        IN  /\ router = constructed
            /\ \A k \in 1..Len(CallLog) :
                  Routing(CallLog[k]) \in RoutingsOn(constructed, CallLog[k].config)

\* C22 witness: a first call whose container excluded k8s from the weighted
\* rule, then a call the weighted rule routed to k8s.
RouterImmutableWitness ==
    /\ Len(CallLog) = 2
    /\ CallLog[1].rule = "weighted" /\ CallLog[1].invoked = "example"
    /\ CallLog[1].config.container.present
    /\ \E i \in 1..Len(router._executors) :
          /\ router._executors[i].name = "k8s"
          /\ router._executors[i].exclusions.items /= <<>>
    /\ CallLog[2].rule = "weighted" /\ CallLog[2].invoked = "k8s"

-----------------------------------------------------------------------------
(* C23 *)

\* the executor operations invoked by the calls made so far, oldest first
RECURSIVE InvocationsOf(_)
InvocationsOf(log) ==
    IF log = <<>> THEN <<>>
    ELSE log[1].invocations \o InvocationsOf(Tail(log))

\* C23: on a router whose default executor is registered, every start and
\* stop call made has invoked the operation of its own name on exactly one
\* registered executor, once, and on no other; the N calls made so far have
\* produced N executor invocations.
OneInvocationPerCall ==
    DefaultName \in RegisteredNames =>
        /\ \A k \in 1..Len(CallLog) :
              /\ Len(CallLog[k].invocations) = 1
              /\ CallLog[k].invocations[1].executor \in RegisteredNames
              /\ CallLog[k].invocations[1].op = CallLog[k].op
        /\ Len(InvocationsOf(CallLog)) = Len(CallLog)

\* the same for calls whose annotations do not name a member of the router
OneInvocationPerOrdinaryCall ==
    (/\ DefaultName \in RegisteredNames
     /\ \A k \in 1..Len(CallLog) :
           CallLog[k].config.annotations.value \notin RouterMembers) =>
        /\ \A k \in 1..Len(CallLog) :
              /\ Len(CallLog[k].invocations) = 1
              /\ CallLog[k].invocations[1].executor \in RegisteredNames
              /\ CallLog[k].invocations[1].op = CallLog[k].op
        /\ Len(InvocationsOf(CallLog)) = Len(CallLog)

-----------------------------------------------------------------------------
(* C24 *)

\* the annotations of call c name a registered executor
AnnotationDriven(c) ==
    LET a == c.config.annotations
    IN  /\ a.present /\ a.key = "executor"
        /\ a.prefix \in {"", "beta.screwdriver.cd/", "screwdriver.cd/"}
        /\ a.value \in RegisteredNames

\* the names the weighted rule can give for configuration c, over every draw
WeightedNames(c) ==
    IF CheckExclusionsThrows(router._executors, c.container) THEN {}
    ELSE {GetWeightedExecutor(CheckExclusions(router._executors, c.container), n) :
             n \in NumbersFor(router, c)}

\* C24: any two start calls made with the same configuration, whose
\* annotations name a registered executor, were resolved by the annotated
\* rule to the same executor.
DeterministicRouting ==
    \A j, k \in 1..Len(CallLog) :
        (/\ CallLog[j].op = "start" /\ CallLog[k].op = "start"
         /\ CallLog[j].config = CallLog[k].config
         /\ AnnotationDriven(CallLog[j])) =>
            /\ CallLog[j].rule = "annotated" /\ CallLog[k].rule = "annotated"
            /\ CallLog[j].invoked = CallLog[k].invoked
            /\ CallLog[j].target = "instance"

\* C24 witness: two start calls with the same annotated configuration on a
\* router whose weighted rule gives two different names for that
\* configuration, depending on the draw.
DeterministicRoutingWitness ==
    /\ Len(CallLog) = 2
    /\ CallLog[1].op = "start" /\ CallLog[2].op = "start"
    /\ CallLog[1].config = CallLog[2].config
    /\ AnnotationDriven(CallLog[1])
    /\ Cardinality(WeightedNames(CallLog[1].config)) = 2
    /\ CallLog[1].invoked = CallLog[2].invoked

-----------------------------------------------------------------------------
(* C25 *)

\* C25: on a router that construction returned, every start and stop call
\* whose annotations name no member of the router gets from the rule chain
\* the name of a registered executor, and does not fail in the lookup.
LookupNeverFails ==
    (Called /\ NamedByAnnotation \notin RouterMembers) =>
        /\ call.executorName \in RegisteredNames
        /\ call.target = "instance"
        /\ call.error = ""

\* a call for which no rule gave the name of a registered executor fails
\* and invokes no executor operation
LookupFailureInvokesNothing ==
    (Called /\ call.executorName \notin RegisteredNames) =>
        /\ call.error = "TypeError"
        /\ call.invocations = <<>>
        /\ call.returned = Rejected("TypeError")

-----------------------------------------------------------------------------
(* C26 *)

\* C26: a call without an executor annotation, for which the candidates the
\* exclusion filter leaves have total weight 0 and the default executor has
\* an exclusion pattern that matches the call's container, is routed by the
\* default rule to that default executor.
DefaultNotFiltered ==
    (/\ Called
     /\ NamedByAnnotation = UNDEFINED
     /\ call.config.container.present
     /\ TotalWeight(EligibleForCall) = 0
     /\ DefaultName \in RegisteredNames
     /\ ExcludedForCall(Candidate(DefaultName))) =>
        /\ call.rule = "default"
        /\ call.executorName = DefaultName
        /\ call.invoked = DefaultName
        /\ call.invocations =
              << [executor |-> DefaultName, op |-> call.op, config |-> call.config] >>

\* C26 witness: the excluded default was invoked although the filter left
\* another candidate, of weight 0.
DefaultNotFilteredWitness ==
    /\ Called
    /\ NamedByAnnotation = UNDEFINED
    /\ DefaultName \in RegisteredNames
    /\ ExcludedForCall(Candidate(DefaultName))
    /\ Len(EligibleForCall) = 1
    /\ EligibleForCall[1].name /= DefaultName
    /\ TotalWeight(EligibleForCall) = 0
    /\ call.rule = "default" /\ call.invoked = DefaultName

-----------------------------------------------------------------------------
(* C27 *)

\* the executors a call with configuration c can be routed to on router r
ExecutorsFor(r, c) ==
    IF r.status /= "constructed" THEN {}
    ELSE {LET e == GetExecutor(r, c, n).executor
          IN  IF e.kind = "instance" THEN e.name ELSE UNDEFINED :
             n \in NumbersFor(r, c)}

\* C27: for the configuration of every call made, the executors a call with
\* that configuration can be routed to on the router as the calls left it
\* are those it can be routed to on the router as constructed from the
\* construction configuration; and the call went to one of them, whatever
\* the calls before it.
NoRoutingHistory ==
    router.status = "constructed" =>
        LET constructed == Constructor(config).router
        IN  \A k \in 1..Len(CallLog) :
                /\ ExecutorsFor(router, CallLog[k].config)
                      = ExecutorsFor(constructed, CallLog[k].config)
                /\ CallLog[k].invoked \in ExecutorsFor(constructed, CallLog[k].config)

\* C27 witness: a start and then a stop with the same configuration, both
\* routed by the weighted rule, to different executors.
NoRoutingHistoryWitness ==
    /\ Len(CallLog) = 2
    /\ CallLog[1].op = "start" /\ CallLog[2].op = "stop"
    /\ CallLog[1].config = CallLog[2].config
    /\ CallLog[1].rule = "weighted" /\ CallLog[2].rule = "weighted"
    /\ CallLog[1].target = "instance" /\ CallLog[2].target = "instance"
    /\ CallLog[1].invoked /= CallLog[2].invoked

-----------------------------------------------------------------------------
(* C28 *)

\* C28: when the annotations of a call name a registered executor and that
\* executor has an exclusion pattern matching the call's container, or the
\* call has no container, the named executor is the one invoked, once, and
\* no rule has failed: the exclusion filter was not run for the call.
AnnotationBypassesExclusions ==
    (/\ Called /\ UsableAnnotation
     /\ \/ ExcludedForCall(Candidate(NamedByAnnotation))
        \/ ~call.config.container.present) =>
        /\ call.invoked = NamedByAnnotation
        /\ call.failed = {}
        /\ call.invocations =
              << [executor |-> NamedByAnnotation, op |-> call.op,
                  config |-> call.config] >>

\* C28 witness: the annotation names an executor that the exclusion filter
\* removes for the call's container, and that executor was invoked.
AnnotationBypassesWitness ==
    /\ Called /\ UsableAnnotation
    /\ ExcludedForCall(Candidate(NamedByAnnotation))
    /\ \A k \in 1..Len(EligibleForCall) :
          EligibleForCall[k].name /= NamedByAnnotation
    /\ call.invoked = NamedByAnnotation

-----------------------------------------------------------------------------
(* C29 *)

\* C29: in no start or stop call, on a router whose default executor is
\* registered, is a member of the router the target of the forwarded call,
\* and a rule ends the evaluation only with the name of a registered
\* executor.
MembersAreNoExecutors ==
    (Called /\ DefaultName \in RegisteredNames) =>
        /\ call.target /= "member"
        /\ call.rule /= "none" => call.executorName \in RegisteredNames

\* the name lookup never succeeds for a name that is neither registered nor
\* a member of the router
LookupOfUnknownNameFails ==
    (Called /\ call.executorName \notin RegisteredNames \cup RouterMembers) =>
        (call.rule = "none" /\ call.target = "undefined")

-----------------------------------------------------------------------------
(* C30 *)

\* C30: when every weight of the list given to the selector is a
\* non-negative integer (a number or a string of decimal digits) and the
\* total T is greater than 0, the draw d is in [0, T), the walk returns at a
\* candidate whose cumulative weight exceeds d, the final return of the first
\* candidate's name is not reached, and the result is the name of a member
\* of the list.
FallbackUnreachable ==
    (/\ Selected
     /\ \A i \in 1..Len(call.executors) :
           NonNegativeInteger(call.executors[i].weightage)
     /\ call.totalWeight > 0) =>
        /\ 0 <= call.number /\ 2 * call.number < call.totalWeight
        /\ ~call.fallback
        /\ \E i \in 1..Len(call.executors) :
              /\ FirstExceeding(call.walkTerms, i, call.number)
              /\ call.result = call.executors[i].name

\* C30 witness: the largest draw of [0, T) on a list of two candidates with
\* positive integer weights, one of them a string, matched at the last one.
FallbackUnreachableWitness ==
    /\ Selected /\ ~call.fallback
    /\ Len(call.executors) = 2
    /\ call.executors[1].weightage = WNumber(4)
    /\ call.executors[2].weightage = WString(<<"2">>)
    /\ 2 * (call.number + 1) = call.totalWeight
    /\ call.result = call.executors[2].name

=============================================================================
